---- MODULE Spec2Model ----
(***************************************************************************)
(* Model of review_pr.py: the AI pull-request reviewer.                    *)
(*                                                                         *)
(* Text is a sequence of symbols.  A symbol is a single character, or one  *)
(* literal chunk of a template (a chunk never occurs in an input).  A      *)
(* Python value that may be None is a record [isNone, s].                  *)
(***************************************************************************)
EXTENDS Integers, Sequences, FiniteSets, TLC

VARIABLES
    pc,             \* position of main
    args,           \* outcome of parser.parse_args()
    exitCode,       \* process exit code, -1 while running
    exc,            \* the call whose exception left the try body, or "none"
    calls,          \* the stages invoked so far, in order
    diff,           \* main: diff
    changed_files,  \* main: changed_files
    pr_title,       \* main: pr_title
    pr_body,        \* main: pr_body
    prompt,         \* main: prompt
    llm,            \* what chat.completions.create did
    review,         \* main: review
    post_arg,       \* review_body of the last post_pr_comment call
    comments        \* the issue comments on the pull request (GitHub's state)

vars == <<pc, args, exitCode, exc, calls, diff, changed_files, pr_title,
          pr_body, prompt, llm, review, post_arg, comments>>

-----------------------------------------------------------------------------
(* Bounds of the model and constants of the program *)

MaxFiles == 25

MaxDiffExtra == 2

MaxComments == 4

FileLimit == 20

DiffLimit == 50000

-----------------------------------------------------------------------------
(* Python values and text *)

None == [isNone |-> TRUE, s |-> <<>>]

Str(t) == [isNone |-> FALSE, s |-> t]

\* bool(v) of None or a str
Truthy(v) == ~v.isNone /\ v.s # <<>>

\* a or b
PyOr(a, b) == IF Truthy(a) THEN a ELSE b

NoneText == <<"N", "o", "n", "e">>

\* {v} in an f-string
Format(v) == IF v.isNone THEN NoneText ELSE v.s

Digit == <<"0", "1", "2", "3", "4", "5", "6", "7", "8", "9">>

RECURSIVE Dec(_)
\* str(n) of a non-negative int
Dec(n) == IF n < 10 THEN <<Digit[n + 1]>> ELSE Dec(n \div 10) \o <<Digit[(n % 10) + 1]>>

\* s[:n]
Take(s, n) == SubSeq(s, 1, IF Len(s) < n THEN Len(s) ELSE n)

\* s.startswith(p)
StartsWith(s, p) == Len(s) >= Len(p) /\ SubSeq(s, 1, Len(p)) = p

RECURSIVE Join(_, _)
\* sep.join(parts)
Join(sep, parts) ==
    IF parts = <<>> THEN <<>>
    ELSE IF Len(parts) = 1 THEN parts[1]
    ELSE parts[1] \o sep \o Join(sep, Tail(parts))

ErrorPrefix == <<"E", "r", "r", "o", "r">>

NA == <<"N", "/", "A">>

-----------------------------------------------------------------------------
(* create_review_prompt *)

\* one entry of the file summary
FileLine(f) ==
    <<"- ">> \o f.filename \o <<" (">> \o f.status \o <<", +">> \o Dec(f.additions)
        \o <<"/-">> \o Dec(f.deletions) \o <<")">>

MoreFilesLine(n) == <<"\n", "... and ">> \o Dec(n) \o <<" more files">>

FileSummaryOffByOne(files) ==
    Join(<<"\n">>, [i \in 1..Len(Take(files, FileLimit + 1)) |-> FileLine(files[i])])
        \o (IF Len(files) > FileLimit THEN MoreFilesLine(Len(files) - FileLimit) ELSE <<>>)

FileSummary(files) ==
    Join(<<"\n">>, [i \in 1..Len(Take(files, FileLimit)) |-> FileLine(files[i])])
        \o (IF Len(files) > FileLimit THEN MoreFilesLine(Len(files) - FileLimit) ELSE <<>>)

DiffSliceUnlimited(d) == d

DiffSlice(d) == Take(d, DiffLimit)

TitleFieldNoPlaceholder(t) == Format(t)

TitleField(t) == Format(PyOr(t, Str(NA)))

BodyField(b) == Format(PyOr(b, Str(NA)))

PromptHead ==
    "You are an expert code reviewer. Review the following pull request changes and provide constructive feedback.\n\nPull Request Title: "

PromptDescription == "\nPull Request Description: "

PromptFiles == "\n\nChanged Files:\n"

\* the code fence (three backquotes) is written [fence]
PromptDiffOpen == "\n\nDiff:\n[fence]\n"

PromptDiffClose == "  # Limit diff size to avoid token limits\n[fence]\n\n"

PromptInstructions ==
    "Please provide a comprehensive code review focusing on:\n1. Code quality and best practices\n2. Potential bugs or security issues\n3. Performance considerations\n4. Code style and consistency\n5. Documentation and comments\n6. Test coverage (if applicable)\n\nFormat your review as:\n- **Summary**: Brief overview\n- **Issues Found**: List of issues with severity (Critical/High/Medium/Low)\n- **Suggestions**: Actionable improvement suggestions\n- **Positive Feedback**: What was done well\n\nBe constructive, specific, and provide code examples when helpful."

create_review_prompt(d, files, title, body) ==
    <<PromptHead>> \o TitleField(title)
        \o <<PromptDescription>> \o BodyField(body)
        \o <<PromptFiles>> \o FileSummary(files)
        \o <<PromptDiffOpen>> \o DiffSlice(d)
        \o <<PromptDiffClose, PromptInstructions>>

-----------------------------------------------------------------------------
(* review_with_ai *)

ErrorDuringReview ==
    ErrorPrefix \o <<" ", "d", "u", "r", "i", "n", "g", " ", "A", "I", " ",
                     "r", "e", "v", "i", "e", "w", ":", " ">>

IndexErrorText == <<"list index out of range">>

\* What the try body does with the outcome o of chat.completions.create:
\* the exception it raises (with its str), or the value it returns.
ReviewTry(o) ==
    IF o.raises THEN [raises |-> TRUE, e |-> o.e, value |-> None]
    ELSE IF o.choices = <<>> THEN [raises |-> TRUE, e |-> IndexErrorText, value |-> None]
    ELSE [raises |-> FALSE, e |-> <<>>, value |-> o.choices[1]]

review_with_ai_uncaught(o) ==
    LET t == ReviewTry(o) IN
    IF o.raises /\ o.e # <<>> THEN [raises |-> TRUE, value |-> None]
    ELSE IF t.raises THEN [raises |-> FALSE, value |-> Str(ErrorDuringReview \o t.e)]
    ELSE [raises |-> FALSE, value |-> t.value]

review_with_ai(o) ==
    LET t == ReviewTry(o) IN
    IF t.raises THEN [raises |-> FALSE, value |-> Str(ErrorDuringReview \o t.e)]
    ELSE [raises |-> FALSE, value |-> t.value]

-----------------------------------------------------------------------------
(* post_pr_comment *)

\* the heading without its emoji
CommentHeading == "## AI Code Review\n\n"

CommentFooter == "\n\n---\n*This review was generated automatically by AI PR Reviewer*"

comment_body(review_body) == <<CommentHeading>> \o review_body \o <<CommentFooter>>

PostOutcomes == {"ok", "get_repo raises", "get_pull raises", "create_issue_comment raises"}

post_pr_comment_dedup(cs, review_body, o) ==
    IF o # "ok" THEN [raises |-> TRUE, comments |-> cs]
    ELSE IF \E i \in 1..Len(cs) : cs[i] = comment_body(review_body)
         THEN [raises |-> FALSE, comments |-> cs]
    ELSE [raises |-> FALSE, comments |-> Append(cs, comment_body(review_body))]

post_pr_comment_lost_reply(cs, review_body, o) ==
    IF o = "create_issue_comment raises"
    THEN [raises |-> TRUE, comments |-> Append(cs, comment_body(review_body))]
    ELSE IF o # "ok" THEN [raises |-> TRUE, comments |-> cs]
    ELSE [raises |-> FALSE, comments |-> Append(cs, comment_body(review_body))]

\* o says which call of the function raises, if any; the comment exists
\* once pr.create_issue_comment has returned
post_pr_comment(cs, review_body, o) ==
    IF o # "ok" THEN [raises |-> TRUE, comments |-> cs]
    ELSE [raises |-> FALSE, comments |-> Append(cs, comment_body(review_body))]

-----------------------------------------------------------------------------
(* What the outside world can answer *)

DiffAlphabet == <<"+", "-", "a", "\n", " ">>

\* a diff text of n characters
DiffText(n, k) == [i \in 1..n |-> DiffAlphabet[((i * k) % 5) + 1]]

Statuses == <<"added", "modified", "removed">>

\* one element of the files resource
File(i, k) ==
    [filename |-> <<"s", "r", "c", "/">> \o Dec(i * k),
     status |-> <<Statuses[(i % 3) + 1]>>,
     additions |-> (i * 7) % 13,
     deletions |-> (i * k) % 11]

\* n changed files, in ascending (k > 0) or descending order of their names
Files(n, k) == [i \in 1..n |-> IF k > 0 THEN File(i, k) ELSE File(n + 1 - i, 1)]

TitleInputs == {None, Str(<<>>), Str(<<"F", "i", "x">>)}

BodyInputs == {None, Str(<<>>), Str(<<"d", "o", "c", "\n">>)}

SmallDiffs == {DiffText(0, 1), DiffText(7, 1), DiffText(12, 2)}

SmallFileLists == {Files(0, 1), Files(1, 1), Files(3, 2)}

\* an HTTP answer to requests.get: the connection fails, or a status and a body
HttpAnswers(bodies) ==
    {[error |-> TRUE, status |-> 0, body |-> <<>>]}
        \cup {[error |-> FALSE, status |-> st, body |-> <<>>] : st \in {404, 500}}
        \cup {[error |-> FALSE, status |-> 200, body |-> b] : b \in bodies}

Timeout == <<"t", "i", "m", "e", "o", "u", "t">>

LGTM == <<"L", "G", "T", "M">>

\* texts a completion can carry
Contents ==
    {None, Str(<<>>), Str(LGTM), Str(ErrorPrefix), Str(ErrorPrefix \o <<"s", " ", "o", "k">>),
     Str(<<"E", "r", "r", "o">>), Str(<<"e", "r", "r", "o", "r">>), Str(<<" ">> \o ErrorPrefix),
     Str(ErrorDuringReview \o Timeout)}

\* what openai_client.chat.completions.create can do
LlmOutcomes ==
    {[raises |-> TRUE, e |-> e, choices |-> <<>>] : e \in {<<>>, Timeout}}
        \cup {[raises |-> FALSE, e |-> <<>>, choices |-> <<>>]}
        \cup {[raises |-> FALSE, e |-> <<>>, choices |-> <<c>>] : c \in Contents}
        \cup {[raises |-> FALSE, e |-> <<>>, choices |-> cs] :
                cs \in {<<Str(LGTM), Str(ErrorPrefix)>>, <<Str(ErrorPrefix), Str(LGTM)>>}}

NoLlm == [raises |-> FALSE, e |-> <<>>, choices |-> <<>>]

-----------------------------------------------------------------------------
(* The fetchers *)

\* response.raise_for_status()
RaiseForStatus(status) == status >= 400 /\ status < 600

get_pr_diff(r) ==
    IF r.error \/ RaiseForStatus(r.status) THEN [raises |-> TRUE, value |-> <<>>]
    ELSE [raises |-> FALSE, value |-> r.body]

get_changed_files(r) ==
    IF r.error \/ RaiseForStatus(r.status) THEN [raises |-> TRUE, value |-> <<>>]
    ELSE [raises |-> FALSE, value |-> r.body]

-----------------------------------------------------------------------------
(* main *)

StageOrder ==
    <<"get_pr_diff", "get_changed_files", "get_pull", "create_review_prompt",
      "review_with_ai", "post_pr_comment">>

Init ==
    /\ pc = "parse_args"
    /\ args = "unparsed"
    /\ exitCode = -1
    /\ exc = "none"
    /\ calls = <<>>
    /\ diff = <<>>
    /\ changed_files = <<>>
    /\ pr_title = None
    /\ pr_body = None
    /\ prompt = <<>>
    /\ llm = NoLlm
    /\ review = None
    /\ post_arg = <<>>
    /\ comments = <<>>

\* sys.exit(code), and the exit of the interpreter on an exception nothing catches
Exit(code) == pc' = "exit" /\ exitCode' = code

\* an exception of stage leaves the try body: except Exception, sys.exit(1)
Handler(stage) == exc' = stage /\ Exit(1)

\* parser.parse_args(): a rejected command line exits 2, -h exits 0
ParseArgs ==
    /\ pc = "parse_args"
    /\ \E a \in {"ok", "usage", "help"} :
        /\ args' = a
        /\ IF a = "ok" THEN pc' = "OpenAI" /\ exitCode' = exitCode
           ELSE IF a = "usage" THEN Exit(2)
           ELSE Exit(0)
    /\ UNCHANGED <<exc, calls, diff, changed_files, pr_title, pr_body, prompt, llm,
                   review, post_arg, comments>>

\* openai_client = OpenAI(api_key=...), outside the try
NewOpenAI ==
    /\ pc = "OpenAI"
    /\ \E raises \in BOOLEAN :
        IF raises THEN exc' = "OpenAI" /\ Exit(1)
        ELSE pc' = "get_pr_diff" /\ UNCHANGED <<exc, exitCode>>
    /\ UNCHANGED <<args, calls, diff, changed_files, pr_title, pr_body, prompt, llm,
                   review, post_arg, comments>>

GetPrDiffRetry ==
    /\ pc = "get_pr_diff"
    /\ \E r \in HttpAnswers(SmallDiffs) :
        LET got == get_pr_diff(r) IN
        IF got.raises
        THEN /\ calls' = calls \o <<"get_pr_diff", "get_pr_diff">>
             /\ Handler("get_pr_diff") /\ diff' = diff
        ELSE /\ calls' = Append(calls, "get_pr_diff")
             /\ diff' = got.value /\ pc' = "get_changed_files"
             /\ UNCHANGED <<exc, exitCode>>
    /\ UNCHANGED <<args, changed_files, pr_title, pr_body, prompt, llm, review,
                   post_arg, comments>>

GetPrDiff ==
    /\ pc = "get_pr_diff"
    /\ calls' = Append(calls, "get_pr_diff")
    /\ \E r \in HttpAnswers(SmallDiffs) :
        LET got == get_pr_diff(r) IN
        IF got.raises THEN Handler("get_pr_diff") /\ diff' = diff
        ELSE diff' = got.value /\ pc' = "get_changed_files" /\ UNCHANGED <<exc, exitCode>>
    /\ UNCHANGED <<args, changed_files, pr_title, pr_body, prompt, llm, review,
                   post_arg, comments>>

GetChangedFiles ==
    /\ pc = "get_changed_files"
    /\ calls' = Append(calls, "get_changed_files")
    /\ \E r \in HttpAnswers(SmallFileLists) :
        LET got == get_changed_files(r) IN
        IF got.raises THEN Handler("get_changed_files") /\ changed_files' = changed_files
        ELSE changed_files' = got.value /\ pc' = "get_pull" /\ UNCHANGED <<exc, exitCode>>
    /\ UNCHANGED <<args, diff, pr_title, pr_body, prompt, llm, review, post_arg, comments>>

\* Github(...), get_repo, get_pull(int(pr_number)), pr.title, pr.body or ""
GetPull ==
    /\ pc = "get_pull"
    /\ calls' = Append(calls, "get_pull")
    /\ \E raises \in BOOLEAN, title \in TitleInputs, body \in BodyInputs :
        IF raises THEN Handler("get_pull") /\ UNCHANGED <<pr_title, pr_body>>
        ELSE /\ pr_title' = title
             /\ pr_body' = PyOr(body, Str(<<>>))
             /\ pc' = "create_review_prompt"
             /\ UNCHANGED <<exc, exitCode>>
    /\ UNCHANGED <<args, diff, changed_files, prompt, llm, review, post_arg, comments>>

CreateReviewPrompt ==
    /\ pc = "create_review_prompt"
    /\ calls' = Append(calls, "create_review_prompt")
    /\ prompt' = create_review_prompt(diff, changed_files, pr_title, pr_body)
    /\ pc' = "review_with_ai"
    /\ UNCHANGED <<args, exitCode, exc, diff, changed_files, pr_title, pr_body, llm,
                   review, post_arg, comments>>

ReviewWithAi ==
    /\ pc = "review_with_ai"
    /\ calls' = Append(calls, "review_with_ai")
    /\ \E o \in LlmOutcomes :
        LET got == review_with_ai(o) IN
        /\ llm' = o
        /\ IF got.raises THEN Handler("review_with_ai") /\ review' = review
           ELSE review' = got.value /\ pc' = "startswith" /\ UNCHANGED <<exc, exitCode>>
    /\ UNCHANGED <<args, diff, changed_files, pr_title, pr_body, prompt, post_arg, comments>>

CheckReviewContains ==
    /\ pc = "startswith"
    /\ IF review.isNone THEN Handler("startswith")
       ELSE IF \E i \in 0..Len(review.s) :
                 StartsWith(SubSeq(review.s, i + 1, Len(review.s)), ErrorPrefix)
            THEN Exit(1) /\ exc' = exc
       ELSE pc' = "post_pr_comment" /\ UNCHANGED <<exc, exitCode>>
    /\ UNCHANGED <<args, calls, diff, changed_files, pr_title, pr_body, prompt, llm,
                   review, post_arg, comments>>

CheckReviewExit0 ==
    /\ pc = "startswith"
    /\ IF review.isNone THEN Handler("startswith")
       ELSE IF StartsWith(review.s, ErrorPrefix) THEN Exit(0) /\ exc' = exc
       ELSE pc' = "post_pr_comment" /\ UNCHANGED <<exc, exitCode>>
    /\ UNCHANGED <<args, calls, diff, changed_files, pr_title, pr_body, prompt, llm,
                   review, post_arg, comments>>

CheckReviewNoneOk ==
    /\ pc = "startswith"
    /\ IF Truthy(review) /\ StartsWith(review.s, ErrorPrefix) THEN Exit(1) /\ exc' = exc
       ELSE pc' = "post_pr_comment" /\ UNCHANGED <<exc, exitCode>>
    /\ UNCHANGED <<args, calls, diff, changed_files, pr_title, pr_body, prompt, llm,
                   review, post_arg, comments>>

\* if review.startswith("Error"): sys.exit(1); None has no startswith
CheckReview ==
    /\ pc = "startswith"
    /\ IF review.isNone THEN Handler("startswith")
       ELSE IF StartsWith(review.s, ErrorPrefix) THEN Exit(1) /\ exc' = exc
       ELSE pc' = "post_pr_comment" /\ UNCHANGED <<exc, exitCode>>
    /\ UNCHANGED <<args, calls, diff, changed_files, pr_title, pr_body, prompt, llm,
                   review, post_arg, comments>>

\* post_pr_comment(...), then main returns
PostPrComment ==
    /\ pc = "post_pr_comment"
    /\ calls' = Append(calls, "post_pr_comment")
    /\ post_arg' = Format(review)
    /\ \E o \in PostOutcomes :
        LET got == post_pr_comment(comments, Format(review), o) IN
        /\ comments' = got.comments
        /\ IF got.raises THEN Handler("post_pr_comment") ELSE Exit(0) /\ exc' = exc
    /\ UNCHANGED <<args, diff, changed_files, pr_title, pr_body, prompt, llm, review>>

Next ==
    \/ ParseArgs
    \/ NewOpenAI
    \/ GetPrDiff
    \/ GetChangedFiles
    \/ GetPull
    \/ CreateReviewPrompt
    \/ ReviewWithAi
    \/ CheckReview
    \/ PostPrComment

Spec == Init /\ [][Next]_vars

-----------------------------------------------------------------------------
(* create_review_prompt on its own: its inputs drawn directly *)

LargeDiffs ==
    {DiffText(n, k) : n \in {1, DiffLimit - 1} \cup DiffLimit..(DiffLimit + MaxDiffExtra),
                      k \in {1, 2}}

PromptInputs ==
    {<<d, f, t, b>> : d \in SmallDiffs,
                      f \in {Files(n, k) : n \in 0..MaxFiles, k \in {0, 1}},
                      t \in TitleInputs, b \in BodyInputs}
        \cup {<<d, f, t, b>> : d \in LargeDiffs,
                               f \in {Files(2, 1), Files(MaxFiles, 1)},
                               t \in TitleInputs, b \in BodyInputs}

InitPrompt ==
    /\ pc = "create_review_prompt"
    /\ args = "ok"
    /\ exitCode = -1
    /\ exc = "none"
    /\ calls = SubSeq(StageOrder, 1, 3)
    /\ \E in \in PromptInputs :
        /\ diff = in[1]
        /\ changed_files = in[2]
        /\ pr_title = in[3]
        /\ pr_body = in[4]
    /\ prompt = <<>>
    /\ llm = NoLlm
    /\ review = None
    /\ post_arg = <<>>
    /\ comments = <<>>

NextPrompt == CreateReviewPrompt

SpecPrompt == InitPrompt /\ [][NextPrompt]_vars

-----------------------------------------------------------------------------
(* post_pr_comment on its own: called again and again on one pull request *)

ReviewBodies == {<<>>, LGTM, <<"o", "k">>}

InitPublisher ==
    /\ pc = "publisher"
    /\ args = "ok"
    /\ exitCode = -1
    /\ exc = "none"
    /\ calls = <<>>
    /\ diff = <<>>
    /\ changed_files = <<>>
    /\ pr_title = None
    /\ pr_body = None
    /\ prompt = <<>>
    /\ llm = NoLlm
    /\ review = None
    /\ post_arg = <<>>
    /\ comments = <<>>

CallPostPrComment ==
    /\ pc = "publisher"
    /\ Len(calls) < MaxComments
    /\ calls' = Append(calls, "post_pr_comment")
    /\ \E body \in ReviewBodies, o \in PostOutcomes :
        LET got == post_pr_comment(comments, body, o) IN
        /\ post_arg' = body
        /\ comments' = got.comments
        /\ exc' = IF got.raises THEN "post_pr_comment" ELSE "none"
    /\ UNCHANGED <<pc, args, exitCode, diff, changed_files, pr_title, pr_body, prompt,
                   llm, review>>

NextPublisher == CallPostPrComment

SpecPublisher == InitPublisher /\ [][NextPublisher]_vars

-----------------------------------------------------------------------------
(* Vocabulary of the properties *)

\* s begins with the five characters E r r o r
HasErrorPrefix(s) ==
    /\ Len(s) >= 5
    /\ s[1] = "E" /\ s[2] = "r" /\ s[3] = "r" /\ s[4] = "o" /\ s[5] = "r"

IsPrefix(a, b) == Len(a) <= Len(b) /\ a = SubSeq(b, 1, Len(a))

\* review_with_ai has been called and has returned or raised
Reviewed == Len(calls) >= 5 /\ pc # "publisher"

\* the publisher has been called
PublisherCalled == Len(calls) = 6 /\ calls[6] = "post_pr_comment"

\* main ran to its last line
RunSucceeded == pc = "exit" /\ args = "ok" /\ exitCode = 0

\* the text of prompt p between the template chunks open and close
Segment(p, open, close) ==
    LET a == CHOOSE i \in 1..Len(p) : p[i] = open
        b == CHOOSE i \in 1..Len(p) : p[i] = close
    IN  SubSeq(p, a + 1, b - 1)

RECURSIVE Split(_, _)
\* the lines of text s (s.split(sep))
Split(s, sep) ==
    IF \A i \in 1..Len(s) : s[i] # sep THEN <<s>>
    ELSE LET i == CHOOSE j \in 1..Len(s) :
                    s[j] = sep /\ \A m \in 1..(j - 1) : s[m] # sep
         IN  <<SubSeq(s, 1, i - 1)>> \o Split(SubSeq(s, i + 1, Len(s)), sep)

PromptBuilt == pc = "review_with_ai" /\ prompt # <<>>

SummaryLines == Split(Segment(prompt, PromptFiles, PromptDiffOpen), "\n")

EmbeddedDiff == Segment(prompt, PromptDiffOpen, PromptDiffClose)

TitleShown == Segment(prompt, PromptHead, PromptDescription)

BodyShown == Segment(prompt, PromptDescription, PromptFiles)

Min(a, b) == IF a < b THEN a ELSE b

-----------------------------------------------------------------------------
(* Properties *)

\* C1: when a run has ended, the pull request carries exactly one new comment
\* if main ran to its last line (exit 0), and none if the run failed, whichever
\* stage failed; no comment exists while the run is still going.
C1_OneCommentIffSuccess ==
    /\ pc # "exit" => comments = <<>>
    /\ pc = "exit" => Len(comments) = (IF RunSucceeded THEN 1 ELSE 0)

C1_Witness ==
    /\ RunSucceeded
    /\ comments = <<comment_body(review.s)>>

\* C2: once review_with_ai has returned a string, the publisher is left out
\* exactly when the string starts with "Error": with the prefix the run ends
\* with exit code 1 and no publisher call; without it the publisher is called
\* with that very string.
C2_AbortIffErrorPrefix ==
    (Reviewed /\ ~review.isNone /\ pc \in {"post_pr_comment", "exit"}) =>
        IF HasErrorPrefix(review.s)
        THEN pc = "exit" /\ exitCode = 1 /\ ~PublisherCalled /\ comments = <<>>
        ELSE pc = "exit" => PublisherCalled /\ post_arg = review.s

C2_Witness ==
    /\ pc = "exit"
    /\ ~llm.raises
    /\ review = Str(ErrorPrefix \o <<"s", " ", "o", "k">>)
    /\ ~PublisherCalled

\* C3: review_with_ai never lets an exception out: when the completion call
\* throws, it returns "Error during AI review: " followed by the exception's
\* text, and when the call returns a first completion, it returns that
\* completion's content unchanged.
C3_ReviewNeverRaises ==
    Reviewed =>
        /\ exc # "review_with_ai"
        /\ llm.raises =>
            /\ ~review.isNone
            /\ HasErrorPrefix(review.s)
            /\ review.s = ErrorDuringReview \o llm.e
        /\ (~llm.raises /\ llm.choices # <<>>) => review = llm.choices[1]

C3_Witness ==
    /\ Reviewed
    /\ llm.raises /\ llm.e = Timeout
    /\ review = Str(ErrorDuringReview \o Timeout)
    /\ pc = "startswith"

\* every stage ran and the comment is there
AllSucceeded == calls = StageOrder /\ exc = "none" /\ Len(comments) = 1

\* a reported failure: an exception, or an "Error" string from review_with_ai
ReportedFailure ==
    \/ exc # "none"
    \/ Reviewed /\ ~review.isNone /\ HasErrorPrefix(review.s)

\* C4 as stated: every run ends with exit code 0 after every stage succeeded
\* and the comment was published, or with exit code 1 after a reported
\* failure, and in no other way.
C4_AsStated ==
    pc = "exit" =>
        \/ exitCode = 0 /\ AllSucceeded /\ ~ReportedFailure
        \/ exitCode = 1 /\ ReportedFailure /\ ~AllSucceeded

\* C4 amended: a run whose command line parse_args accepts ends with exit
\* code 0 after every stage succeeded and the comment was published, or with
\* exit code 1 after a reported failure, and in no other way; a run that
\* parse_args stops ends with exit code 2 (rejected command line) or 0 (-h)
\* before any stage is invoked.
C4_ExitCodes ==
    pc = "exit" =>
        /\ args = "ok" =>
            \/ exitCode = 0 /\ AllSucceeded /\ ~ReportedFailure
            \/ exitCode = 1 /\ ReportedFailure /\ ~AllSucceeded
        /\ args = "usage" => exitCode = 2 /\ calls = <<>> /\ comments = <<>>
        /\ args = "help" => exitCode = 0 /\ calls = <<>> /\ comments = <<>>

C4_Witness ==
    /\ pc = "exit" /\ args = "ok"
    /\ exitCode = 1
    /\ exc = "none"
    /\ HasErrorPrefix(review.s)

\* C9: the stages invoked so far are an initial part of the fixed order (so
\* each at most once and none out of turn), and a failure is the end: the
\* stage that failed is the last one invoked and the run has exited.
C9_StagesInOrder ==
    /\ IsPrefix(calls, StageOrder)
    /\ exc = "OpenAI" => calls = <<>> /\ pc = "exit"
    /\ exc \in {StageOrder[i] : i \in 1..6} =>
        pc = "exit" /\ calls # <<>> /\ calls[Len(calls)] = exc
    /\ (ReportedFailure /\ exc \in {"none", "startswith"} /\ pc \in {"post_pr_comment", "exit"}) =>
        pc = "exit" /\ Len(calls) = 5

C9_Witness ==
    /\ pc = "exit"
    /\ exc = "get_pull"
    /\ calls = <<"get_pr_diff", "get_changed_files", "get_pull">>

\* C10: when the first completion has no text, review_with_ai returns None,
\* the prefix check raises, and the run ends with exit code 1 without the
\* publisher having been called.
C10_NoneContentFails ==
    (Reviewed /\ ~llm.raises /\ llm.choices # <<>> /\ llm.choices[1].isNone) =>
        /\ review.isNone
        /\ pc \in {"startswith", "exit"}
        /\ pc = "exit" =>
            exitCode = 1 /\ exc = "startswith" /\ ~PublisherCalled /\ comments = <<>>

C10_Witness ==
    /\ pc = "exit" /\ exitCode = 1
    /\ Reviewed /\ ~llm.raises /\ llm.choices = <<None>>
    /\ review.isNone
    /\ exc = "startswith"

\* C5: the file summary has one line for each of the first min(n, 20) files,
\* in input order, then, only if n > 20, the one line "... and {n-20} more
\* files"; with no file it is empty.
C5_FileSummary ==
    PromptBuilt =>
        LET n == Len(changed_files)
            shown == Min(n, FileLimit)
            lines == SummaryLines
        IN  /\ Len(lines) = (IF n = 0 THEN 1 ELSE IF n > 20 THEN 21 ELSE n)
            /\ n = 0 => lines = << <<>> >>
            /\ \A i \in 1..shown : lines[i] = FileLine(changed_files[i])
            /\ n > 20 => lines[21] = <<"... and ">> \o Dec(n - 20) \o <<" more files">>
            /\ n <= 20 => \A i \in 1..Len(lines) :
                            lines[i] = <<>> \/ lines[i][1] # "... and "

C5_Witness ==
    /\ PromptBuilt
    /\ Len(changed_files) = 25
    /\ Len(SummaryLines) = 21
    /\ SummaryLines[20] = FileLine(changed_files[20])
    /\ SummaryLines[21] = <<"... and ", "5", " more files">>

\* C6: the diff inside the prompt is the first 50,000 characters of the input
\* when the input is longer, and the whole input when it is not; never more
\* than 50,000 characters.
C6_DiffTruncated ==
    PromptBuilt =>
        /\ Len(EmbeddedDiff) <= 50000
        /\ Len(diff) > 50000 => EmbeddedDiff = SubSeq(diff, 1, 50000)
        /\ Len(diff) <= 50000 => EmbeddedDiff = diff

C6_Witness ==
    /\ PromptBuilt
    /\ Len(diff) = 50001
    /\ Len(EmbeddedDiff) = 50000

\* C7: the prompt shows N/A for a title that is None or absent (the default
\* ""), and for a description that is None or absent, each whatever the other
\* is; a non-empty title or description is shown as given.
C7_Placeholders ==
    PromptBuilt =>
        /\ (pr_title.isNone \/ pr_title.s = <<>>) => TitleShown = <<"N", "/", "A">>
        /\ (~pr_title.isNone /\ pr_title.s # <<>>) => TitleShown = pr_title.s
        /\ (pr_body.isNone \/ pr_body.s = <<>>) => BodyShown = <<"N", "/", "A">>
        /\ (~pr_body.isNone /\ pr_body.s # <<>>) => BodyShown = pr_body.s

C7_Witness ==
    /\ PromptBuilt
    /\ pr_title.isNone
    /\ ~pr_body.isNone /\ pr_body.s # <<>>
    /\ TitleShown = <<"N", "/", "A">>
    /\ BodyShown = pr_body.s

\* C8: every successful call of post_pr_comment adds one comment, the wrapped
\* review body, after the comments already there, which it leaves as they
\* are: it neither updates nor skips a comment that is already present.
C8_EveryCallAddsAComment ==
    [][(calls' # calls /\ exc' = "none") =>
          /\ Len(comments') = Len(comments) + 1
          /\ SubSeq(comments', 1, Len(comments)) = comments
          /\ comments'[Len(comments')] = comment_body(post_arg')]_vars

C8_Witness ==
    /\ pc = "publisher"
    /\ Len(calls) = 2
    /\ Len(comments) = 2
    /\ comments[1] = comments[2]

====
